---- MODULE Spec2Model ----
(***************************************************************************)
(* Listener orchestration of veneur (networking.go): protocol dispatch,    *)
(* the UDP reader pool, the TCP listener manager and the Unix listener     *)
(* manager with its file lock, accept-relay task and dispatch task.        *)
(*                                                                         *)
(* A process p owns one Server (s.shutdown, s.numReaders, s.tlsConfig).    *)
(* Two processes share one host: the Unix socket path and its lock file.   *)
(***************************************************************************)
EXTENDS Integers, Sequences, FiniteSets, TLC

\* ---------------------------------------------------------------- bounds
MaxConns == 2      \* client connections made to one Unix listener
MaxReaders == 2    \* largest configured s.numReaders
MaxPackets == 1    \* datagrams one UDP worker reads
MaxRows == 2       \* lines of one softnet report

Procs == {1, 2}
Workers == 1..MaxReaders

\* Address values: the Go type is the transport kind, Network() the network.
Addrs == {"udp", "tcp", "unix", "unixgram", "ip"}
UnixAddrs == {"unix", "unixgram"}

\* concrete type of a net.Addr, as the type switches see it
AddrType(a) ==
  CASE a = "udp" -> "UDPAddr"
    [] a = "tcp" -> "TCPAddr"
    [] a \in UnixAddrs -> "UnixAddr"
    [] OTHER -> "IPAddr"

TLSConfigs == {"nil", "NoClientCert", "RequestClientCert", "RequireAndVerifyClientCert"}

VARIABLES
  shutdown,    \* [Procs -> BOOLEAN]  s.shutdown is closed
  alive,       \* [Procs -> BOOLEAN]  the process is running
  numReaders,  \* s.numReaders of process 1
  tlsConfig,   \* s.tlsConfig of process 1
  \* StartSSF / startSSFUnix / startSSFUDP
  ssfPc,       \* [Procs -> position of the caller inside StartSSF]
  ssfAddr,     \* [Procs -> address passed to StartSSF, "none" before]
  ssfFatal,    \* [Procs -> message of the panic raised by StartSSF, "none"]
  lockHolder,  \* process holding the flock on <path>.lock, 0 when free
  unlocks,     \* [Procs -> number of lock.Unlock() calls]
  sockFile,    \* file at the socket path: "none", "stale" or "sock"
  sockOwner,   \* process whose listener bound that socket file, 0 if none
  sockPerm,    \* mode of that file: "default" or "0666"
  ulistener,   \* [Procs -> "none" | "open" | "closed"]
  pending,     \* [Procs -> connections waiting in the listener's backlog]
  connects,    \* [Procs -> connections ever made to the listener]
  relayPc,     \* [Procs -> position of the accept-relay goroutine]
  dispatchPc,  \* [Procs -> position of the dispatch goroutine]
  accepted,    \* [Procs -> successful AcceptUnix calls]
  readers,     \* [Procs -> ReadSSFStreamSocket goroutines spawned]
  done,        \* [Procs -> the returned channel is closed]
  doneCloses,  \* [Procs -> number of close(done) calls]
  ssfSock,     \* startSSFUDP: "none" | "open"
  ssfReuse,    \* startSSFUDP: reuse flag passed to NewSocket, "none" before
  ssfReader,   \* startSSFUDP: "none" | "reading" | "exited"
  \* StartStatsd / startStatsdUDP / startStatsdTCP (process 1)
  statsdPc,    \* position of the caller inside StartStatsd
  statsdAddr,  \* address passed to StartStatsd, "none" before
  statsdFatal, \* message of the panic raised by StartStatsd, "none"
  spawned,     \* startStatsdUDP: loop index i, goroutines spawned so far
  wstate,      \* [Workers -> position of worker goroutine]
  wreuse,      \* [Workers -> reuse flag passed to NewSocket, "none" before]
  wfailed,     \* [Workers -> NewSocket returned an error]
  wsock,       \* [Workers -> "none" | "open"]  the worker's own socket
  wreads,      \* [Workers -> datagrams read by the worker]
  reports,     \* number of non-nil values handed to ConsumePanic
  tcpListener, \* "none" | "open" | "closed"
  tcpCloser,   \* "none" | "waiting" | "done"
  tcpMode,     \* "none" | "unencrypted" | "encrypted" | "authenticated"
  tcpWrapped,  \* listener is a tls.NewListener
  tcpAcceptor, \* "none" | "running" | "exited"
  tcpConns,    \* connections accepted by the TCP acceptor
  \* SoftnetStat / parseSoftnet
  snPc,        \* position inside SoftnetStat and parseSoftnet
  snRows,      \* how each line of the report was produced (not read by the code)
  snReader,    \* the lines the io.Reader delivers, each a sequence of characters
  snRecords,   \* records returned by cr.ReadAll()
  snI,         \* loop index i of parseSoftnet, counted from 1
  snSd,        \* sd.Processors
  snResult     \* the returned (SoftnetData, error), "none" before the return

procVars == <<shutdown, alive>>
cfgVars == <<numReaders, tlsConfig>>
ssfVars == <<ssfPc, ssfAddr, ssfFatal>>
lockVars == <<lockHolder, unlocks>>
fsVars == <<sockFile, sockOwner, sockPerm>>
lsnVars == <<ulistener, pending, connects>>
taskVars == <<relayPc, dispatchPc, accepted, readers, done, doneCloses>>
ssfUdpVars == <<ssfSock, ssfReuse, ssfReader>>
statsdVars == <<statsdPc, statsdAddr, statsdFatal>>
udpVars == <<spawned, wstate, wreuse, wfailed, wsock, wreads, reports>>
tcpVars == <<tcpListener, tcpCloser, tcpMode, tcpWrapped, tcpAcceptor, tcpConns>>
snVars == <<snPc, snRows, snReader, snRecords, snI, snSd, snResult>>

unixVars == <<lockVars, fsVars, lsnVars, taskVars>>
vars == <<procVars, cfgVars, ssfVars, unixVars, ssfUdpVars, statsdVars, udpVars, tcpVars, snVars>>

\* ------------------------------------------------------------------ Init
InitIntake ==
  /\ shutdown = [p \in Procs |-> FALSE]
  /\ alive = [p \in Procs |-> TRUE]
  /\ numReaders \in 0..MaxReaders
  /\ tlsConfig \in TLSConfigs
  /\ ssfPc = [p \in Procs |-> "idle"]
  /\ ssfAddr = [p \in Procs |-> "none"]
  /\ ssfFatal = [p \in Procs |-> "none"]
  /\ lockHolder = 0
  /\ unlocks = [p \in Procs |-> 0]
  /\ sockFile \in {"none", "stale"}
  /\ sockOwner = 0
  /\ sockPerm = "default"
  /\ ulistener = [p \in Procs |-> "none"]
  /\ pending = [p \in Procs |-> 0]
  /\ connects = [p \in Procs |-> 0]
  /\ relayPc = [p \in Procs |-> "none"]
  /\ dispatchPc = [p \in Procs |-> "none"]
  /\ accepted = [p \in Procs |-> 0]
  /\ readers = [p \in Procs |-> 0]
  /\ done = [p \in Procs |-> FALSE]
  /\ doneCloses = [p \in Procs |-> 0]
  /\ ssfSock = "none"
  /\ ssfReuse = "none"
  /\ ssfReader = "none"
  /\ statsdPc = "idle"
  /\ statsdAddr = "none"
  /\ statsdFatal = "none"
  /\ spawned = 0
  /\ wstate = [w \in Workers |-> "none"]
  /\ wreuse = [w \in Workers |-> "none"]
  /\ wfailed = [w \in Workers |-> FALSE]
  /\ wsock = [w \in Workers |-> "none"]
  /\ wreads = [w \in Workers |-> 0]
  /\ reports = 0
  /\ tcpListener = "none"
  /\ tcpCloser = "none"
  /\ tcpMode = "none"
  /\ tcpWrapped = FALSE
  /\ tcpAcceptor = "none"
  /\ tcpConns = 0

\* SoftnetStat has not been called
InitSoftnetIdle ==
  /\ snPc = "idle"
  /\ snRows = <<>>
  /\ snReader = <<>>
  /\ snRecords = <<>>
  /\ snI = 0
  /\ snSd = <<>>
  /\ snResult = "none"

Init ==
  /\ InitIntake
  /\ InitSoftnetIdle

\* ------------------------------------------------- process and environment

\* close(s.shutdown): the one-shot broadcast, fired by the server's owner
Shutdown(p) ==
  /\ alive[p]
  /\ ~shutdown[p]
  /\ shutdown' = [shutdown EXCEPT ![p] = TRUE]
  /\ UNCHANGED <<alive, cfgVars, snVars, ssfVars, unixVars, ssfUdpVars, statsdVars, udpVars, tcpVars>>

\* What the kernel does when process p ends: its descriptors are closed, so
\* its flock is dropped and its listeners stop; nothing is unlinked.
ExitLock(p) == IF lockHolder = p THEN 0 ELSE lockHolder
ExitListener(p) == [ulistener EXCEPT ![p] = IF @ = "open" THEN "closed" ELSE @]
ExitTCP(p) == IF p = 1 /\ tcpListener = "open" THEN "closed" ELSE tcpListener

\* panic(...) raised by the setup routine running in StartSSF of process p
SSFPanic(p, msg) ==
  /\ ssfPc' = [ssfPc EXCEPT ![p] = "panicked"]
  /\ ssfFatal' = [ssfFatal EXCEPT ![p] = msg]


\* An unrecovered panic or log.Fatal ends process p.
ProcessExit(p) ==
  /\ alive' = [alive EXCEPT ![p] = FALSE]
  /\ lockHolder' = ExitLock(p)
  /\ ulistener' = ExitListener(p)
  /\ tcpListener' = ExitTCP(p)

\* The panic of a setup routine reaches the top of the calling goroutine.
Abort(p) ==
  /\ alive[p]
  /\ \/ ssfPc[p] = "panicked"
     \/ p = 1 /\ statsdPc = "panicked"
  /\ ProcessExit(p)
  /\ UNCHANGED <<shutdown, cfgVars, snVars, ssfVars, unlocks, fsVars, pending, connects,
                 taskVars, ssfUdpVars, statsdVars, udpVars,
                 tcpCloser, tcpMode, tcpWrapped, tcpAcceptor, tcpConns>>

\* A client connects to the socket path and lands in the backlog of the
\* listener whose socket file is bound there.
Connect(p) ==
  /\ alive[p]
  /\ sockFile = "sock"
  /\ sockOwner = p
  /\ ulistener[p] = "open"
  /\ connects[p] < MaxConns
  /\ connects' = [connects EXCEPT ![p] = @ + 1]
  /\ pending' = [pending EXCEPT ![p] = @ + 1]
  /\ UNCHANGED <<procVars, cfgVars, snVars, ssfVars, lockVars, fsVars, ulistener,
                 taskVars, ssfUdpVars, statsdVars, udpVars, tcpVars>>

\* ---------------------------------------------------------- startSSFUnix

\* done := make(chan struct{}); addr.Network() != "unix" panics
UnixEnter(p, a) ==
  /\ ssfAddr' = [ssfAddr EXCEPT ![p] = a]
  /\ IF a # "unix"
       THEN SSFPanic(p, "network")
       ELSE /\ ssfPc' = [ssfPc EXCEPT ![p] = "trylock"]
            /\ UNCHANGED ssfFatal
  /\ UNCHANGED <<procVars, cfgVars, snVars, unixVars, ssfUdpVars, statsdVars, udpVars, tcpVars>>

\* TryLock whose "not locked" result is not checked by the caller
UnixTryLock_IgnoreHeld(p) ==
  /\ alive[p]
  /\ ssfPc[p] = "trylock"
  /\ \/ /\ SSFPanic(p, "lockerr")
        /\ UNCHANGED lockHolder
     \/ /\ lockHolder' = IF lockHolder = 0 THEN p ELSE lockHolder
        /\ ssfPc' = [ssfPc EXCEPT ![p] = "remove"]
        /\ UNCHANGED ssfFatal
  /\ UNCHANGED <<procVars, cfgVars, snVars, ssfAddr, unlocks, fsVars, lsnVars, taskVars,
                 ssfUdpVars, statsdVars, udpVars, tcpVars>>

\* locked, err := lock.TryLock(): an I/O error, the lock held by another
\* open file description, or the lock acquired
UnixTryLock(p) ==
  /\ alive[p]
  /\ ssfPc[p] = "trylock"
  /\ \/ /\ SSFPanic(p, "lockerr")
        /\ UNCHANGED lockHolder
     \/ /\ lockHolder # 0
        /\ SSFPanic(p, "lockheld")
        /\ UNCHANGED lockHolder
     \/ /\ lockHolder = 0
        /\ lockHolder' = p
        /\ ssfPc' = [ssfPc EXCEPT ![p] = "remove"]
        /\ UNCHANGED ssfFatal
  /\ UNCHANGED <<procVars, cfgVars, snVars, ssfAddr, unlocks, fsVars, lsnVars, taskVars,
                 ssfUdpVars, statsdVars, udpVars, tcpVars>>

\* a removal whose error is checked: a missing file is fatal
UnixRemove_CheckErr(p) ==
  /\ alive[p]
  /\ ssfPc[p] = "remove"
  /\ sockFile' = "none"
  /\ sockOwner' = 0
  /\ sockPerm' = "default"
  /\ IF sockFile = "none"
       THEN SSFPanic(p, "remove")
       ELSE /\ ssfPc' = [ssfPc EXCEPT ![p] = "listen"]
            /\ UNCHANGED ssfFatal
  /\ UNCHANGED <<procVars, cfgVars, snVars, ssfAddr, lockVars, lsnVars, taskVars,
                 ssfUdpVars, statsdVars, udpVars, tcpVars>>

\* _ = os.Remove(addr.String()): whatever is at the path goes, errors ignored
UnixRemove(p) ==
  /\ alive[p]
  /\ ssfPc[p] = "remove"
  /\ sockFile' = "none"
  /\ sockOwner' = 0
  /\ sockPerm' = "default"
  /\ ssfPc' = [ssfPc EXCEPT ![p] = "listen"]
  /\ UNCHANGED <<procVars, cfgVars, snVars, ssfAddr, ssfFatal, lockVars, lsnVars, taskVars,
                 ssfUdpVars, statsdVars, udpVars, tcpVars>>

\* listener, err := net.ListenUnix(...): bind fails when a file is in the
\* way and may fail for any other reason; on success the file is p's socket
UnixListen(p) ==
  /\ alive[p]
  /\ ssfPc[p] = "listen"
  /\ \/ /\ SSFPanic(p, "listen")
        /\ UNCHANGED <<fsVars, ulistener>>
     \/ /\ sockFile = "none"
        /\ sockFile' = "sock"
        /\ sockOwner' = p
        /\ sockPerm' = "default"
        /\ ulistener' = [ulistener EXCEPT ![p] = "open"]
        /\ ssfPc' = [ssfPc EXCEPT ![p] = "chmod"]
        /\ UNCHANGED ssfFatal
  /\ UNCHANGED <<procVars, cfgVars, snVars, ssfAddr, lockVars, pending, connects, taskVars,
                 ssfUdpVars, statsdVars, udpVars, tcpVars>>

\* err = os.Chmod(addr.String(), 0666): fails when the path is gone and may
\* fail for any other reason
UnixChmod(p) ==
  /\ alive[p]
  /\ ssfPc[p] = "chmod"
  /\ \/ /\ SSFPanic(p, "chmod")
        /\ UNCHANGED sockPerm
     \/ /\ sockFile # "none"
        /\ sockPerm' = "0666"
        /\ ssfPc' = [ssfPc EXCEPT ![p] = "spawn"]
        /\ UNCHANGED ssfFatal
  /\ UNCHANGED <<procVars, cfgVars, snVars, ssfAddr, lockVars, sockFile, sockOwner, lsnVars, taskVars,
                 ssfUdpVars, statsdVars, udpVars, tcpVars>>

\* go func() {...}(); return done  -- and StartSSF logs and returns
UnixSpawn(p) ==
  /\ alive[p]
  /\ ssfPc[p] = "spawn"
  /\ dispatchPc' = [dispatchPc EXCEPT ![p] = "init"]
  /\ ssfPc' = [ssfPc EXCEPT ![p] = "returned"]
  /\ UNCHANGED <<procVars, cfgVars, snVars, ssfAddr, ssfFatal, lockVars, fsVars, lsnVars,
                 relayPc, accepted, readers, done, doneCloses,
                 ssfUdpVars, statsdVars, udpVars, tcpVars>>

\* the setup part of startSSFUnix after its entry check
startSSFUnix(p) ==
  \/ UnixTryLock(p)
  \/ UnixRemove(p)
  \/ UnixListen(p)
  \/ UnixChmod(p)
  \/ UnixSpawn(p)

\* ------------------------------------------------- the accept-relay task

\* conn, err := listener.AcceptUnix() returns a connection
AcceptConn(p) ==
  /\ alive[p]
  /\ relayPc[p] = "accept"
  /\ ulistener[p] = "open"
  /\ pending[p] > 0
  /\ pending' = [pending EXCEPT ![p] = @ - 1]
  /\ accepted' = [accepted EXCEPT ![p] = @ + 1]
  /\ relayPc' = [relayPc EXCEPT ![p] = "send"]
  /\ UNCHANGED <<procVars, cfgVars, snVars, ssfVars, lockVars, fsVars, ulistener, connects,
                 dispatchPc, readers, done, doneCloses,
                 ssfUdpVars, statsdVars, udpVars, tcpVars>>

\* AcceptUnix returns an error because the listener has been closed
AcceptClosed(p) ==
  /\ alive[p]
  /\ relayPc[p] = "accept"
  /\ ulistener[p] = "closed"
  /\ relayPc' = [relayPc EXCEPT ![p] = "errcheck"]
  /\ UNCHANGED <<procVars, cfgVars, snVars, ssfVars, lockVars, fsVars, lsnVars,
                 dispatchPc, accepted, readers, done, doneCloses,
                 ssfUdpVars, statsdVars, udpVars, tcpVars>>

\* AcceptUnix returns an error on an open listener (out of descriptors, ...)
AcceptFail(p) ==
  /\ alive[p]
  /\ relayPc[p] = "accept"
  /\ ulistener[p] = "open"
  /\ relayPc' = [relayPc EXCEPT ![p] = "errcheck"]
  /\ UNCHANGED <<procVars, cfgVars, snVars, ssfVars, lockVars, fsVars, lsnVars,
                 dispatchPc, accepted, readers, done, doneCloses,
                 ssfUdpVars, statsdVars, udpVars, tcpVars>>

\* select { case <-s.shutdown: ...; return }: the deferred function runs next
RelayErrShutdown(p) ==
  /\ alive[p]
  /\ relayPc[p] = "errcheck"
  /\ shutdown[p]
  /\ relayPc' = [relayPc EXCEPT ![p] = "unlock"]
  /\ UNCHANGED <<procVars, cfgVars, snVars, ssfVars, lockVars, fsVars, lsnVars,
                 dispatchPc, accepted, readers, done, doneCloses,
                 ssfUdpVars, statsdVars, udpVars, tcpVars>>

\* a default case that only logs: the loop goes on to `conns <- conn`
RelayErrFatal_LogOnly(p) ==
  /\ alive[p]
  /\ relayPc[p] = "errcheck"
  /\ ~shutdown[p]
  /\ relayPc' = [relayPc EXCEPT ![p] = "send"]
  /\ UNCHANGED <<procVars, cfgVars, snVars, ssfVars, lockVars, fsVars, lsnVars,
                 dispatchPc, accepted, readers, done, doneCloses,
                 ssfUdpVars, statsdVars, udpVars, tcpVars>>

\* select { default: log....Fatal("Unix accept failed") }: the process exits,
\* deferred functions do not run
RelayErrFatal(p) ==
  /\ alive[p]
  /\ relayPc[p] = "errcheck"
  /\ ~shutdown[p]
  /\ ProcessExit(p)
  /\ UNCHANGED <<shutdown, cfgVars, snVars, ssfVars, unlocks, fsVars, pending, connects,
                 taskVars, ssfUdpVars, statsdVars, udpVars,
                 tcpCloser, tcpMode, tcpWrapped, tcpAcceptor, tcpConns>>

\* a deferred function that closes done without unlocking
RelayUnlock_Skip(p) ==
  /\ alive[p]
  /\ relayPc[p] = "unlock"
  /\ relayPc' = [relayPc EXCEPT ![p] = "closedone"]
  /\ UNCHANGED <<procVars, cfgVars, snVars, ssfVars, lockVars, fsVars, lsnVars,
                 dispatchPc, accepted, readers, done, doneCloses,
                 ssfUdpVars, statsdVars, udpVars, tcpVars>>

\* defer: lock.Unlock()
RelayUnlock(p) ==
  /\ alive[p]
  /\ relayPc[p] = "unlock"
  /\ lockHolder' = IF lockHolder = p THEN 0 ELSE lockHolder
  /\ unlocks' = [unlocks EXCEPT ![p] = @ + 1]
  /\ relayPc' = [relayPc EXCEPT ![p] = "closedone"]
  /\ UNCHANGED <<procVars, cfgVars, snVars, ssfVars, fsVars, lsnVars,
                 dispatchPc, accepted, readers, done, doneCloses,
                 ssfUdpVars, statsdVars, udpVars, tcpVars>>

\* defer: close(done)
RelayCloseDone(p) ==
  /\ alive[p]
  /\ relayPc[p] = "closedone"
  /\ done' = [done EXCEPT ![p] = TRUE]
  /\ doneCloses' = [doneCloses EXCEPT ![p] = @ + 1]
  /\ relayPc' = [relayPc EXCEPT ![p] = "done"]
  /\ UNCHANGED <<procVars, cfgVars, snVars, ssfVars, lockVars, fsVars, lsnVars,
                 dispatchPc, accepted, readers,
                 ssfUdpVars, statsdVars, udpVars, tcpVars>>

\* the goroutine of lines 166-185, except its send, which is a rendezvous
RelayTask(p) ==
  \/ AcceptConn(p)
  \/ AcceptClosed(p)
  \/ RelayErrShutdown(p)
  \/ RelayErrFatal(p)
  \/ RelayUnlock(p)
  \/ RelayCloseDone(p)

\* ----------------------------------------------------- the dispatch task

\* conns := make(chan net.Conn); go func() {...}()
DispatchInit(p) ==
  /\ alive[p]
  /\ dispatchPc[p] = "init"
  /\ relayPc' = [relayPc EXCEPT ![p] = "accept"]
  /\ dispatchPc' = [dispatchPc EXCEPT ![p] = "select"]
  /\ UNCHANGED <<procVars, cfgVars, snVars, ssfVars, lockVars, fsVars, lsnVars,
                 accepted, readers, done, doneCloses,
                 ssfUdpVars, statsdVars, udpVars, tcpVars>>

\* case conn := <-conns: go s.ReadSSFStreamSocket(conn)
\* the unbuffered send of the relay task and this receive happen together
DispatchRecv(p) ==
  /\ alive[p]
  /\ dispatchPc[p] = "select"
  /\ relayPc[p] = "send"
  /\ relayPc' = [relayPc EXCEPT ![p] = "accept"]
  /\ readers' = [readers EXCEPT ![p] = @ + 1]
  /\ UNCHANGED <<procVars, cfgVars, snVars, ssfVars, lockVars, fsVars, lsnVars,
                 dispatchPc, accepted, done, doneCloses,
                 ssfUdpVars, statsdVars, udpVars, tcpVars>>

\* a shutdown case that returns without closing the listener
DispatchShutdown_NoClose(p) ==
  /\ alive[p]
  /\ dispatchPc[p] = "select"
  /\ shutdown[p]
  /\ dispatchPc' = [dispatchPc EXCEPT ![p] = "done"]
  /\ UNCHANGED <<procVars, cfgVars, snVars, ssfVars, lockVars, fsVars, lsnVars,
                 relayPc, accepted, readers, done, doneCloses,
                 ssfUdpVars, statsdVars, udpVars, tcpVars>>

\* case <-s.shutdown: listener.Close(); return
\* Close of a listener made by ListenUnix also unlinks the socket path
DispatchShutdown(p) ==
  /\ alive[p]
  /\ dispatchPc[p] = "select"
  /\ shutdown[p]
  /\ ulistener' = [ulistener EXCEPT ![p] = "closed"]
  /\ sockFile' = "none"
  /\ sockOwner' = 0
  /\ sockPerm' = "default"
  /\ dispatchPc' = [dispatchPc EXCEPT ![p] = "done"]
  /\ UNCHANGED <<procVars, cfgVars, snVars, ssfVars, lockVars, pending, connects,
                 relayPc, accepted, readers, done, doneCloses,
                 ssfUdpVars, statsdVars, udpVars, tcpVars>>

DispatchTask(p) ==
  \/ DispatchInit(p)
  \/ DispatchRecv(p)
  \/ DispatchShutdown(p)

\* ------------------------------------------- two managers on one socket path

\* a caller hands a *net.UnixAddr to startSSFUnix
StartUnix(p, a) ==
  /\ alive[p]
  /\ ssfPc[p] = "idle"
  /\ UnixEnter(p, a)

NextUnix ==
  \E p \in Procs :
    \/ \E a \in UnixAddrs : StartUnix(p, a)
    \/ startSSFUnix(p)
    \/ RelayTask(p)
    \/ AcceptFail(p)
    \/ DispatchTask(p)
    \/ Connect(p)
    \/ Shutdown(p)
    \/ Abort(p)

InitUnix ==
  /\ Init
  /\ numReaders = 1
  /\ tlsConfig = "nil"

SpecUnix == InitUnix /\ [][NextUnix]_vars

\* Goroutines that can run do run: the caller inside startSSFUnix, the
\* accept-relay task and the dispatch task.  Clients, failing system calls,
\* the shutdown and the fate of a panicking caller are not scheduled.
FairUnix ==
  /\ SpecUnix
  /\ \A p \in Procs : /\ WF_vars(startSSFUnix(p))
                      /\ WF_vars(RelayTask(p))
                      /\ WF_vars(DispatchTask(p))

\* ---------------------------------------------------------------------
\* Properties of the Unix listener manager

\* C1: once the manager has started and the shutdown signal has fired, the
\* accept-relay task eventually terminates: done is closed and the lock is
\* released, whatever the interleaving with client connections.
C1_RelayTerminatesAfterShutdown ==
  \A p \in Procs :
    (ssfPc[p] = "returned" /\ shutdown[p])
      ~> (relayPc[p] = "done" /\ done[p] /\ lockHolder # p)

\* C2: done is closed at most once, and whenever it is closed the manager
\* has unlocked and no longer holds the lock, so the lock is free for a
\* fresh acquisition unless another manager took it.
C2_DoneOnceAfterUnlock ==
  \A p \in Procs :
    /\ doneCloses[p] <= 1
    /\ done[p] => (doneCloses[p] = 1 /\ unlocks[p] = 1 /\ lockHolder # p)

\* a second manager has freshly acquired the lock after the first completed
C2_Witness ==
  /\ done[1]
  /\ lockHolder = 2
  /\ ssfPc[2] = "remove"

\* C3: a start that finds the lock held by another manager ends on the
\* fatal path at TryLock (lock held, unless TryLock itself errors) and
\* leaves the socket file, the listeners and the lock as they were; only
\* the lock holder ever reaches the removal, the bind or the chmod.
C3_SecondStartFailsBeforeRemove ==
  /\ [](\A q \in Procs :
          ssfPc[q] \in {"remove", "listen", "chmod", "spawn"} => lockHolder = q)
  /\ [][\A q \in Procs :
          (lockHolder \notin {0, q} /\ ssfPc[q] = "trylock" /\ ssfPc'[q] # "trylock")
            => /\ ssfPc'[q] = "panicked"
               /\ ssfFatal'[q] \in {"lockheld", "lockerr"}
               /\ UNCHANGED <<fsVars, ulistener, lockHolder>>]_vars

\* the second start has failed on "lock held" next to the first's live socket
C3_Witness ==
  /\ ssfPc[2] = "panicked"
  /\ ssfFatal[2] = "lockheld"
  /\ lockHolder = 1
  /\ ulistener[1] = "open"
  /\ sockFile = "sock"
  /\ sockOwner = 1

\* C4: a manager's listener is open only while that manager holds the lock
\* (so the lock is never released with the listener still open), and
\* closing one manager's listener never removes the socket file bound by
\* another manager whose listener is open.
C4_ExclusiveOwnership ==
  /\ [](\A p \in Procs : ulistener[p] = "open" => lockHolder = p)
  /\ [][\A p \in Procs :
          (sockFile = "sock" /\ sockOwner = p /\ ulistener[p] = "open"
             /\ ulistener'[p] = "open")
            => (sockFile' = "sock" /\ sockOwner' = p)]_vars

\* C5: whenever a manager that had acquired the lock has left startSSFUnix
\* by a panic at the bind or at the chmod, or its accept-relay task has
\* ended, it has unlocked exactly once and does not hold the lock.
C5_LockReleasedOnEveryExit ==
  \A p \in Procs :
    (alive[p] /\ (\/ ssfPc[p] = "panicked" /\ ssfFatal[p] \in {"listen", "chmod"}
                  \/ relayPc[p] = "done"))
      => (unlocks[p] = 1 /\ lockHolder # p)


\* ============================================================ process 1
\* The intake of one server: StartStatsd and StartSSF called once each.

Flag(b) == IF b THEN "true" ELSE "false"

\* crash reporter, called from the deferred functions with recover():
\* nil is ignored, any other value is reported, and the call returns
ConsumePanic(err) ==
  reports' = IF err = "nil" THEN reports ELSE reports + 1

\* panic(...) raised by the setup routine running in StartStatsd
StatsdPanic(msg) ==
  /\ statsdPc' = "panicked"
  /\ statsdFatal' = msg

\* ---------------------------------------------------------- StartStatsd

\* a type switch whose default case starts the TCP manager
StartStatsd_DefaultTCP(a) ==
  /\ alive[1]
  /\ statsdPc = "idle"
  /\ statsdAddr' = a
  /\ statsdPc' = IF AddrType(a) = "UDPAddr" THEN "udploop" ELSE "tcplisten"
  /\ UNCHANGED <<procVars, cfgVars, snVars, ssfVars, unixVars, ssfUdpVars, statsdFatal,
                 udpVars, tcpVars>>

StartStatsd(a) ==
  /\ alive[1]
  /\ statsdPc = "idle"
  /\ statsdAddr' = a
  /\ CASE AddrType(a) = "UDPAddr" ->
            /\ statsdPc' = "udploop"
            /\ UNCHANGED statsdFatal
       [] AddrType(a) = "TCPAddr" ->
            /\ statsdPc' = "tcplisten"
            /\ UNCHANGED statsdFatal
       [] OTHER -> StatsdPanic("unsupported")
  /\ UNCHANGED <<procVars, cfgVars, snVars, ssfVars, unixVars, ssfUdpVars, udpVars, tcpVars>>

\* ------------------------------------------------------- startStatsdUDP

\* a reuse flag that is set for every non-empty pool
StatsdReuse_NonZero(n) == n # 0

\* the third argument of NewSocket in startStatsdUDP
StatsdReuse(n) == n # 1

\* for i := 0; i < s.numReaders; i++ { go func() {...}() }
UDPSpawn ==
  /\ alive[1]
  /\ statsdPc = "udploop"
  /\ spawned < numReaders
  /\ spawned' = spawned + 1
  /\ wstate' = [wstate EXCEPT ![spawned + 1] = "newsocket"]
  /\ UNCHANGED <<procVars, cfgVars, snVars, ssfVars, unixVars, ssfUdpVars, statsdVars,
                 wreuse, wfailed, wsock, wreads, reports, tcpVars>>

\* the loop condition fails and startStatsdUDP returns
UDPReturn ==
  /\ alive[1]
  /\ statsdPc = "udploop"
  /\ ~(spawned < numReaders)
  /\ statsdPc' = "returned"
  /\ UNCHANGED <<procVars, cfgVars, snVars, ssfVars, unixVars, ssfUdpVars, statsdAddr,
                 statsdFatal, udpVars, tcpVars>>

\* sock, err := NewSocket(addr, s.RcvbufBytes, s.numReaders != 1)
\* err != nil panics inside the goroutine
WorkerNewSocket(w) ==
  /\ alive[1]
  /\ wstate[w] = "newsocket"
  /\ wreuse' = [wreuse EXCEPT ![w] = Flag(StatsdReuse(numReaders))]
  /\ \/ /\ wfailed' = [wfailed EXCEPT ![w] = TRUE]
        /\ wstate' = [wstate EXCEPT ![w] = "panicking"]
        /\ UNCHANGED wsock
     \/ /\ wsock' = [wsock EXCEPT ![w] = "open"]
        /\ wstate' = [wstate EXCEPT ![w] = "reading"]
        /\ UNCHANGED wfailed
  /\ UNCHANGED <<procVars, cfgVars, snVars, ssfVars, unixVars, ssfUdpVars, statsdVars,
                 spawned, wreads, reports, tcpVars>>

\* s.ReadMetricSocket(sock, packetPool) reads one datagram
WorkerRead(w) ==
  /\ alive[1]
  /\ wstate[w] = "reading"
  /\ wreads[w] < MaxPackets
  /\ wreads' = [wreads EXCEPT ![w] = @ + 1]
  /\ UNCHANGED <<procVars, cfgVars, snVars, ssfVars, unixVars, ssfUdpVars, statsdVars,
                 spawned, wstate, wreuse, wfailed, wsock, reports, tcpVars>>

\* s.ReadMetricSocket panics
WorkerReadPanic(w) ==
  /\ alive[1]
  /\ wstate[w] = "reading"
  /\ wstate' = [wstate EXCEPT ![w] = "panicking"]
  /\ UNCHANGED <<procVars, cfgVars, snVars, ssfVars, unixVars, ssfUdpVars, statsdVars,
                 spawned, wreuse, wfailed, wsock, wreads, reports, tcpVars>>

\* a goroutine without the deferred recover: its panic ends the process
WorkerRecover_Propagate(w) ==
  /\ alive[1]
  /\ wstate[w] = "panicking"
  /\ ProcessExit(1)
  /\ wstate' = [v \in Workers |-> IF wstate[v] = "none" THEN "none" ELSE "exited"]
  /\ UNCHANGED <<shutdown, cfgVars, snVars, ssfVars, unlocks, fsVars, pending, connects,
                 taskVars, ssfUdpVars, statsdVars,
                 spawned, wreuse, wfailed, wsock, wreads, reports,
                 tcpCloser, tcpMode, tcpWrapped, tcpAcceptor, tcpConns>>

\* defer func() { ConsumePanic(..., recover()) }(): the panic is recovered,
\* handed to the crash reporter, and the goroutine ends
WorkerRecover(w) ==
  /\ alive[1]
  /\ wstate[w] = "panicking"
  /\ ConsumePanic("panic")
  /\ wstate' = [wstate EXCEPT ![w] = "exited"]
  /\ UNCHANGED <<procVars, cfgVars, snVars, ssfVars, unixVars, ssfUdpVars, statsdVars,
                 spawned, wreuse, wfailed, wsock, wreads, tcpVars>>

UDPWorker(w) ==
  \/ WorkerNewSocket(w)
  \/ WorkerRead(w)
  \/ WorkerRecover(w)

startStatsdUDP ==
  \/ UDPSpawn
  \/ UDPReturn

\* ------------------------------------------------------- startStatsdTCP

\* listener, err = net.ListenTCP("tcp", addr)
TCPListen ==
  /\ alive[1]
  /\ statsdPc = "tcplisten"
  /\ \/ /\ StatsdPanic("tcplisten")
        /\ UNCHANGED tcpListener
     \/ /\ tcpListener' = "open"
        /\ statsdPc' = "tcpcloser"
        /\ UNCHANGED statsdFatal
  /\ UNCHANGED <<procVars, cfgVars, snVars, ssfVars, unixVars, ssfUdpVars, statsdAddr,
                 udpVars, tcpCloser, tcpMode, tcpWrapped, tcpAcceptor, tcpConns>>

\* go func() { <-s.shutdown; listener.Close() }()
TCPSpawnCloser ==
  /\ alive[1]
  /\ statsdPc = "tcpcloser"
  /\ tcpCloser' = "waiting"
  /\ statsdPc' = "tcpmode"
  /\ UNCHANGED <<procVars, cfgVars, snVars, ssfVars, unixVars, ssfUdpVars, statsdAddr,
                 statsdFatal, udpVars, tcpListener, tcpMode, tcpWrapped,
                 tcpAcceptor, tcpConns>>

\* a mode that calls every configuration asking for a client certificate
\* authenticated
TCPModeOf_AnyClientCert(cfg) ==
  IF cfg # "nil"
    THEN IF cfg # "NoClientCert" THEN "authenticated" ELSE "encrypted"
    ELSE "unencrypted"

\* mode := "unencrypted"; if s.tlsConfig != nil {...}
TCPModeOf(cfg) ==
  IF cfg # "nil"
    THEN IF cfg = "RequireAndVerifyClientCert" THEN "authenticated" ELSE "encrypted"
    ELSE "unencrypted"

TCPMode ==
  /\ alive[1]
  /\ statsdPc = "tcpmode"
  /\ tcpMode' = TCPModeOf(tlsConfig)
  /\ tcpWrapped' = (tlsConfig # "nil")
  /\ statsdPc' = "tcpacceptor"
  /\ UNCHANGED <<procVars, cfgVars, snVars, ssfVars, unixVars, ssfUdpVars, statsdAddr,
                 statsdFatal, udpVars, tcpListener, tcpCloser, tcpAcceptor, tcpConns>>

\* go func() { defer ...; s.ReadTCPSocket(listener) }()
TCPSpawnAcceptor ==
  /\ alive[1]
  /\ statsdPc = "tcpacceptor"
  /\ tcpAcceptor' = "running"
  /\ statsdPc' = "returned"
  /\ UNCHANGED <<procVars, cfgVars, snVars, ssfVars, unixVars, ssfUdpVars, statsdAddr,
                 statsdFatal, udpVars, tcpListener, tcpCloser, tcpMode, tcpWrapped,
                 tcpConns>>

startStatsdTCP ==
  \/ TCPListen
  \/ TCPSpawnCloser
  \/ TCPMode
  \/ TCPSpawnAcceptor

\* a closer that does not wait for the shutdown signal
TCPClose_NoWait ==
  /\ alive[1]
  /\ tcpCloser = "waiting"
  /\ tcpListener' = "closed"
  /\ tcpCloser' = "done"
  /\ UNCHANGED <<procVars, cfgVars, snVars, ssfVars, unixVars, ssfUdpVars, statsdVars,
                 udpVars, tcpMode, tcpWrapped, tcpAcceptor, tcpConns>>

\* <-s.shutdown; err := listener.Close()
TCPClose ==
  /\ alive[1]
  /\ tcpCloser = "waiting"
  /\ shutdown[1]
  /\ tcpListener' = "closed"
  /\ tcpCloser' = "done"
  /\ UNCHANGED <<procVars, cfgVars, snVars, ssfVars, unixVars, ssfUdpVars, statsdVars,
                 udpVars, tcpMode, tcpWrapped, tcpAcceptor, tcpConns>>

\* s.ReadTCPSocket(listener) accepts a connection
TCPAccept ==
  /\ alive[1]
  /\ tcpAcceptor = "running"
  /\ tcpListener = "open"
  /\ tcpConns < MaxConns
  /\ tcpConns' = tcpConns + 1
  /\ UNCHANGED <<procVars, cfgVars, snVars, ssfVars, unixVars, ssfUdpVars, statsdVars,
                 udpVars, tcpListener, tcpCloser, tcpMode, tcpWrapped, tcpAcceptor>>

\* s.ReadTCPSocket(listener) returns once the listener is closed
TCPAcceptorExit ==
  /\ alive[1]
  /\ tcpAcceptor = "running"
  /\ tcpListener = "closed"
  /\ ConsumePanic("nil")
  /\ tcpAcceptor' = "exited"
  /\ UNCHANGED <<procVars, cfgVars, snVars, ssfVars, unixVars, ssfUdpVars, statsdVars,
                 spawned, wstate, wreuse, wfailed, wsock, wreads,
                 tcpListener, tcpCloser, tcpMode, tcpWrapped, tcpConns>>

\* s.ReadTCPSocket(listener) panics; the deferred function recovers it
TCPAcceptorPanic ==
  /\ alive[1]
  /\ tcpAcceptor = "running"
  /\ ConsumePanic("panic")
  /\ tcpAcceptor' = "exited"
  /\ UNCHANGED <<procVars, cfgVars, snVars, ssfVars, unixVars, ssfUdpVars, statsdVars,
                 spawned, wstate, wreuse, wfailed, wsock, wreads,
                 tcpListener, tcpCloser, tcpMode, tcpWrapped, tcpConns>>

\* ------------------------------------------------------------- StartSSF

\* a reuse flag that is set from one reader on
SSFReuse_AtLeastOne(n) == n >= 1

\* the third argument of NewSocket in startSSFUDP
SSFReuse(n) == n > 1

StartSSF(p, a) ==
  /\ alive[p]
  /\ ssfPc[p] = "idle"
  /\ CASE AddrType(a) = "UDPAddr" ->
            /\ ssfAddr' = [ssfAddr EXCEPT ![p] = a]
            /\ ssfPc' = [ssfPc EXCEPT ![p] = "udpsock"]
            /\ UNCHANGED <<procVars, cfgVars, snVars, ssfFatal, unixVars, ssfUdpVars,
                           statsdVars, udpVars, tcpVars>>
       [] AddrType(a) = "UnixAddr" -> UnixEnter(p, a)
       [] OTHER ->
            /\ ssfAddr' = [ssfAddr EXCEPT ![p] = a]
            /\ SSFPanic(p, "unsupported")
            /\ UNCHANGED <<procVars, cfgVars, snVars, unixVars, ssfUdpVars,
                           statsdVars, udpVars, tcpVars>>

\* listener, err := NewSocket(addr, s.RcvbufBytes, s.numReaders > 1)
SSFNewSocket ==
  /\ alive[1]
  /\ ssfPc[1] = "udpsock"
  /\ ssfReuse' = Flag(SSFReuse(numReaders))
  /\ \/ /\ SSFPanic(1, "udpsock")
        /\ UNCHANGED ssfSock
     \/ /\ ssfSock' = "open"
        /\ ssfPc' = [ssfPc EXCEPT ![1] = "udpspawn"]
        /\ UNCHANGED ssfFatal
  /\ UNCHANGED <<procVars, cfgVars, snVars, ssfAddr, unixVars, ssfReader,
                 statsdVars, udpVars, tcpVars>>

\* a reader that looks at the shutdown signal first and closes its socket
SSFSpawnReader_CheckShutdown ==
  /\ alive[1]
  /\ ssfPc[1] = "udpspawn"
  /\ IF shutdown[1]
       THEN ssfReader' = "exited" /\ ssfSock' = "closed"
       ELSE ssfReader' = "reading" /\ UNCHANGED ssfSock
  /\ ssfPc' = [ssfPc EXCEPT ![1] = "returned"]
  /\ UNCHANGED <<procVars, cfgVars, snVars, ssfAddr, ssfFatal, unixVars, ssfReuse,
                 statsdVars, udpVars, tcpVars>>

\* go func() { defer ...; s.ReadSSFPacketSocket(listener, tracePool) }()
SSFSpawnReader ==
  /\ alive[1]
  /\ ssfPc[1] = "udpspawn"
  /\ ssfReader' = "reading"
  /\ ssfPc' = [ssfPc EXCEPT ![1] = "returned"]
  /\ UNCHANGED <<procVars, cfgVars, snVars, ssfAddr, ssfFatal, unixVars, ssfSock, ssfReuse,
                 statsdVars, udpVars, tcpVars>>

\* s.ReadSSFPacketSocket panics; the deferred function recovers it
SSFReaderPanic ==
  /\ alive[1]
  /\ ssfReader = "reading"
  /\ ConsumePanic("panic")
  /\ ssfReader' = "exited"
  /\ UNCHANGED <<procVars, cfgVars, snVars, ssfVars, unixVars, ssfSock, ssfReuse,
                 statsdVars, spawned, wstate, wreuse, wfailed, wsock, wreads, tcpVars>>

startSSFUDP ==
  \/ SSFNewSocket
  \/ SSFSpawnReader

\* ------------------------------------------------------------------ Next
Next ==
  \/ \E a \in Addrs : StartStatsd(a)
  \/ startStatsdUDP
  \/ \E w \in Workers : UDPWorker(w) \/ WorkerReadPanic(w)
  \/ startStatsdTCP
  \/ TCPClose
  \/ TCPAccept
  \/ TCPAcceptorExit
  \/ TCPAcceptorPanic
  \/ \E a \in Addrs : StartSSF(1, a)
  \/ startSSFUDP
  \/ SSFReaderPanic
  \/ startSSFUnix(1)
  \/ RelayTask(1)
  \/ AcceptFail(1)
  \/ DispatchTask(1)
  \/ Connect(1)
  \/ Shutdown(1)
  \/ Abort(1)

Spec == Init /\ [][Next]_vars


\* ------------------------------------ the two shutdown-aware listeners
\* One server with its statsd intake on TCP and its SSF intake on a Unix
\* socket.
InitListeners ==
  /\ Init
  /\ numReaders = 1

NextListeners ==
  \/ StartStatsd("tcp")
  \/ startStatsdTCP
  \/ TCPClose
  \/ TCPAccept
  \/ TCPAcceptorExit
  \/ TCPAcceptorPanic
  \/ StartSSF(1, "unix")
  \/ startSSFUnix(1)
  \/ RelayTask(1)
  \/ AcceptFail(1)
  \/ DispatchTask(1)
  \/ Connect(1)
  \/ Shutdown(1)
  \/ Abort(1)

SpecListeners == InitListeners /\ [][NextListeners]_vars

\* Goroutines that can run do run: the caller inside the two setup
\* routines, the TCP closer, the accept-relay task and the dispatch task.
\* Clients, failing calls, panics, the shutdown and the fate of a panicking
\* caller are not scheduled.
FairListeners ==
  /\ SpecListeners
  /\ WF_vars(startStatsdTCP)
  /\ WF_vars(TCPClose)
  /\ WF_vars(startSSFUnix(1))
  /\ WF_vars(RelayTask(1))
  /\ WF_vars(DispatchTask(1))

\* ---------------------------------------------------------------------
\* Properties of the intake of one server

\* C6: after the shutdown signal has fired, an open TCP listener of
\* startStatsdTCP and the open listener of a started Unix manager are each
\* eventually closed, with or without connections arriving or waiting in
\* the relay.
C6_ListenersClosedAfterShutdown ==
  /\ (shutdown[1] /\ tcpListener = "open") ~> (tcpListener = "closed")
  /\ (shutdown[1] /\ ssfPc[1] = "returned" /\ ulistener[1] = "open")
       ~> (ulistener[1] = "closed")

\* both listeners were closed by their tasks while a connection sat in the relay
C6_Witness ==
  /\ shutdown[1]
  /\ tcpCloser = "done"
  /\ tcpListener = "closed"
  /\ dispatchPc[1] = "done"
  /\ ulistener[1] = "closed"
  /\ relayPc[1] = "send"


\* C7: StartStatsd sends a UDP address to the reader pool and a TCP address
\* to the TCP manager, StartSSF sends a UDP address to the trace reader and
\* a Unix address to the Unix manager; every other kind of address ends on
\* the "unsupported" fatal path with no socket, lock or task created and
\* without the call returning.
StatsdUntouchedUDP ==
  /\ spawned = 0
  /\ \A w \in Workers : wstate[w] = "none" /\ wsock[w] = "none"
StatsdUntouchedTCP ==
  /\ tcpListener = "none"
  /\ tcpCloser = "none"
  /\ tcpAcceptor = "none"
SSFUntouchedUDP ==
  /\ ssfSock = "none"
  /\ ssfReader = "none"
SSFUntouchedUnix ==
  /\ lockHolder # 1
  /\ unlocks[1] = 0
  /\ ulistener[1] = "none"
  /\ dispatchPc[1] = "none"
  /\ relayPc[1] = "none"
C7_ProtocolDispatch ==
  /\ statsdAddr = "udp" =>
       /\ statsdPc \in {"udploop", "returned"}
       /\ statsdFatal = "none"
       /\ StatsdUntouchedTCP
  /\ statsdAddr = "tcp" =>
       /\ statsdPc \in {"tcplisten", "tcpcloser", "tcpmode", "tcpacceptor",
                        "returned", "panicked"}
       /\ statsdFatal \in {"none", "tcplisten"}
       /\ StatsdUntouchedUDP
  /\ statsdAddr \in {"unix", "unixgram", "ip"} =>
       /\ statsdPc = "panicked"
       /\ statsdFatal = "unsupported"
       /\ StatsdUntouchedUDP
       /\ StatsdUntouchedTCP
  /\ ssfAddr[1] = "udp" =>
       /\ ssfPc[1] \in {"udpsock", "udpspawn", "returned", "panicked"}
       /\ ssfFatal[1] \in {"none", "udpsock"}
       /\ SSFUntouchedUnix
  /\ ssfAddr[1] \in {"unix", "unixgram"} =>
       /\ ssfPc[1] \in {"trylock", "remove", "listen", "chmod", "spawn",
                        "returned", "panicked"}
       /\ ssfFatal[1] \in {"none", "network", "lockerr", "lockheld", "listen", "chmod"}
       /\ SSFUntouchedUDP
  /\ ssfAddr[1] \in {"tcp", "ip"} =>
       /\ ssfPc[1] = "panicked"
       /\ ssfFatal[1] = "unsupported"
       /\ SSFUntouchedUDP
       /\ SSFUntouchedUnix

\* a Unix address given to StartStatsd and a TCP address given to StartSSF
\* have both ended on the fatal path
C7_Witness ==
  /\ statsdAddr = "unix"
  /\ statsdFatal = "unsupported"
  /\ ssfAddr[1] = "tcp"
  /\ ssfFatal[1] = "unsupported"

\* C8: with N >= 1 configured readers startStatsdUDP spawns exactly N
\* workers, every worker makes its own socket, and each socket is made
\* with reuse enabled exactly when N >= 2.
C8_WorkersAndReuse ==
  numReaders >= 1 =>
    /\ Cardinality({w \in Workers : wstate[w] # "none"}) = spawned
    /\ spawned <= numReaders
    /\ (statsdAddr = "udp" /\ statsdPc = "returned") => spawned = numReaders
    /\ \A w \in Workers :
         /\ wsock[w] = "open" => wreuse[w] # "none"
         /\ wreuse[w] # "none" => (wreuse[w] = "true" <=> numReaders >= 2)

\* a pool of at least two workers, all reading from reuse-enabled sockets
C8_Witness ==
  /\ numReaders >= 2
  /\ statsdPc = "returned"
  /\ \A w \in 1..numReaders :
       wstate[w] = "reading" /\ wsock[w] = "open" /\ wreuse[w] = "true"

\* C9: a socket construction failure in a worker is fatal: no worker whose
\* NewSocket failed has ended while the process runs on with a sibling
\* reading.
C9_SocketFailureIsFatal ==
  ~ \E w \in Workers, v \in Workers :
       /\ v # w
       /\ wfailed[w]
       /\ wstate[w] = "exited"
       /\ alive[1]
       /\ wstate[v] = "reading"

\* C10: a panic recovered in a worker is reported to ConsumePanic and ends
\* that worker only: the process lives on and every sibling keeps its
\* position and its socket; a reading worker always has its socket.
C10_RecoveredPanicSparesSiblings ==
  /\ [](\A v \in Workers : wstate[v] = "reading" => wsock[v] = "open")
  /\ [][\A w \in Workers :
          (wstate[w] = "panicking" /\ wstate'[w] # "panicking")
            => /\ reports' = reports + 1
               /\ wstate'[w] = "exited"
               /\ alive'[1]
               /\ \A v \in Workers \ {w} :
                    wstate'[v] = wstate[v] /\ wsock'[v] = wsock[v]]_vars

\* a read-loop panic has been reported and a sibling is still reading
C10_Witness ==
  \E w \in Workers, v \in Workers :
    /\ v # w
    /\ wstate[w] = "exited"
    /\ ~wfailed[w]
    /\ reports >= 1
    /\ alive[1]
    /\ wstate[v] = "reading"
    /\ wreads[v] >= 1

\* ---------------------------------------------------------------------
\* Further properties of the Unix listener manager (two managers)

\* C11: when the relay task leaves its check of a failed accept, it has
\* either seen the shutdown signal and returns without ending the process,
\* or the signal had not fired and the process ends; a connection is in
\* the relay only after a successful accept.
C11_AcceptFailure ==
  /\ [](\A p \in Procs :
          /\ readers[p] <= accepted[p]
          /\ relayPc[p] = "send" => accepted[p] = readers[p] + 1)
  /\ [][\A p \in Procs :
          (/\ relayPc[p] = "errcheck"
           /\ alive[p]
           /\ (relayPc'[p] # "errcheck" \/ ~alive'[p]))
            => IF shutdown[p]
                 THEN relayPc'[p] = "unlock" /\ alive'[p]
                 ELSE /\ ~alive'[p]
                      /\ relayPc'[p] = "errcheck"
                      /\ accepted'[p] = accepted[p]
                      /\ ~done'[p]]_vars

\* one manager has returned cleanly from a failed accept during shutdown,
\* the other has ended its process on a failed accept without shutdown
C11_Witness ==
  /\ alive[1]
  /\ shutdown[1]
  /\ relayPc[1] = "done"
  /\ ~alive[2]
  /\ ~shutdown[2]
  /\ relayPc[2] = "errcheck"

\* C13: the removal before the bind never fails the start, whether or not
\* a file is at the socket path: the start moves on to the bind with the
\* path clear, and a successful bind puts the new listener's socket there.
C13_StaleSocketRemoved ==
  /\ [](\A p \in Procs : ssfPc[p] = "listen" => sockFile = "none")
  /\ [][\A p \in Procs :
          /\ (ssfPc[p] = "remove" /\ ssfPc'[p] # "remove")
               => /\ ssfPc'[p] = "listen"
                  /\ ssfFatal'[p] = "none"
                  /\ sockFile' = "none"
          /\ (ssfPc[p] = "listen" /\ ssfPc'[p] = "chmod")
               => /\ sockFile' = "sock"
                  /\ sockOwner' = p
                  /\ ulistener'[p] = "open"]_vars

\* the socket file left by a manager whose process died has been replaced
\* by the socket of a manager started afterwards
C13_Witness ==
  /\ ~alive[2]
  /\ relayPc[2] = "errcheck"
  /\ ulistener[2] = "closed"
  /\ ssfPc[1] = "returned"
  /\ ulistener[1] = "open"
  /\ sockFile = "sock"
  /\ sockOwner = 1

\* ---------------------------------------------------------------------
\* Further properties of the intake of one server

\* C12: the UDP workers of both intakes do not observe the shutdown
\* signal: the step that fires it changes nothing of theirs, no step ever
\* closes an open UDP socket, and a reading worker stops reading only by
\* a panic.
C12_UDPIgnoresShutdown ==
  /\ [][shutdown'[1] # shutdown[1] => UNCHANGED <<udpVars, ssfUdpVars>>]_vars
  /\ [][/\ \A w \in Workers : wsock[w] = "open" => wsock'[w] = "open"
        /\ ssfSock = "open" => ssfSock' = "open"]_vars
  /\ [][/\ \A w \in Workers :
             (wstate[w] = "reading" /\ wstate'[w] # "reading")
               => wstate'[w] = "panicking"
        /\ (ssfReader = "reading" /\ ssfReader' # "reading")
             => (ssfReader' = "exited" /\ reports' = reports + 1)]_vars
  /\ [](/\ \A w \in Workers : wstate[w] = "reading" => wsock[w] = "open"
        /\ ssfReader = "reading" => ssfSock = "open")

\* after the shutdown a statsd worker and the trace reader are both reading
C12_Witness ==
  /\ shutdown[1]
  /\ alive[1]
  /\ ssfPc[1] = "returned"
  /\ ssfReader = "reading"
  /\ ssfSock = "open"
  /\ \E w \in Workers : wstate[w] = "reading" /\ wsock[w] = "open" /\ wreads[w] >= 1

\* C14: the mode computed by startStatsdTCP is unencrypted exactly without
\* a TLS configuration, authenticated exactly when the configuration
\* requires and verifies a client certificate, encrypted for every other
\* configuration; the listener is wrapped exactly when the mode is not
\* unencrypted.
C14_TCPMode ==
  tcpMode # "none" =>
    /\ tcpMode \in {"unencrypted", "encrypted", "authenticated"}
    /\ tcpMode = "unencrypted" <=> tlsConfig = "nil"
    /\ tcpMode = "authenticated" <=> tlsConfig = "RequireAndVerifyClientCert"
    /\ tcpMode = "encrypted" <=> tlsConfig \in {"NoClientCert", "RequestClientCert"}
    /\ tcpWrapped <=> tcpMode # "unencrypted"

\* a listener in encrypted mode for a configuration that only requests a
\* client certificate
C14_Witness ==
  /\ tlsConfig = "RequestClientCert"
  /\ tcpMode = "encrypted"
  /\ tcpWrapped
  /\ tcpAcceptor = "running"

\* C17: every accepted connection is eventually received by the dispatch
\* task and given one reader, and there are never more readers than
\* accepted connections.
C17_AcceptedConnsGetReaders ==
  /\ [](\A p \in Procs : readers[p] <= accepted[p])
  /\ \A p \in Procs : (relayPc[p] = "send") ~> (readers[p] = accepted[p])

\* C18: when a setup error is raised the failing intake has taken no
\* traffic: the TCP and Unix managers have spawned no closer, acceptor,
\* relay or dispatch task, and no worker of the UDP pool is reading at the
\* moment a sibling's NewSocket fails; a failed step is not retried.
C18_FatalBeforeTraffic ==
  /\ [](statsdFatal = "tcplisten" =>
          tcpCloser = "none" /\ tcpAcceptor = "none" /\ tcpConns = 0)
  /\ [](ssfFatal[1] \in {"network", "lockerr", "lockheld", "listen", "chmod"} =>
          dispatchPc[1] = "none" /\ relayPc[1] = "none" /\ accepted[1] = 0)
  /\ [][/\ statsdPc = "panicked" => statsdPc' = "panicked"
        /\ ssfPc[1] = "panicked" => ssfPc'[1] = "panicked"
        /\ \A w \in Workers : wfailed[w] => wsock'[w] = "none"]_vars
  /\ [][\A w \in Workers :
          (~wfailed[w] /\ wfailed'[w])
            => \A v \in Workers : wstate[v] # "reading" /\ wreads[v] = 0]_vars

\* C19: a listener of a running process is closed only once the shutdown
\* signal has fired, and the closing step of the TCP closer and of the
\* Unix dispatch task each find their listener open.
C19_ClosedOnlyAfterShutdown ==
  /\ [](alive[1] =>
          /\ tcpListener = "closed" => shutdown[1]
          /\ ulistener[1] = "closed" => shutdown[1])
  /\ [][/\ (tcpCloser = "waiting" /\ tcpCloser' = "done")
             => (shutdown[1] /\ tcpListener = "open" /\ tcpListener' = "closed")
        /\ (dispatchPc[1] = "select" /\ dispatchPc'[1] = "done")
             => (shutdown[1] /\ ulistener[1] = "open" /\ ulistener'[1] = "closed")
        /\ tcpListener = "closed" => tcpListener' = "closed"
        /\ ulistener[1] = "closed" => ulistener'[1] = "closed"]_vars

\* both listeners have been closed after the shutdown and both accepting
\* tasks have ended
C19_Witness ==
  /\ alive[1]
  /\ shutdown[1]
  /\ tcpListener = "closed"
  /\ tcpAcceptor = "exited"
  /\ ulistener[1] = "closed"
  /\ relayPc[1] = "done"

\* C20: startSSFUDP makes its one socket in the caller, with reuse enabled
\* exactly when N > 1, and spawns its one reader only after the socket
\* exists; when NewSocket fails the caller panics and there is neither a
\* socket nor a reader.
C20_SSFUDPSingleSocket ==
  /\ ssfReuse # "none" => (ssfReuse = "true" <=> numReaders >= 2)
  /\ ssfReader # "none" => (ssfSock = "open" /\ ssfPc[1] = "returned")
  /\ ssfSock = "open" => (ssfAddr[1] = "udp" /\ ssfReuse # "none")
  /\ (ssfAddr[1] = "udp" /\ ssfPc[1] = "returned") =>
       (ssfSock = "open" /\ ssfReader \in {"reading", "exited"})
  /\ ssfFatal[1] = "udpsock" =>
       (ssfPc[1] = "panicked" /\ ssfSock = "none" /\ ssfReader = "none")

\* with two readers configured the trace intake reads from one
\* reuse-enabled socket
C20_Witness ==
  /\ numReaders = 2
  /\ ssfReuse = "true"
  /\ ssfSock = "open"
  /\ ssfReader = "reading"

\* ====================================================================
\* SoftnetStat and parseSoftnet

columns == 11   \* const columns = 11
base == 16      \* const base = 16
bitSize == 64   \* strconv.ParseInt(c, base, 64)
Comma == " "    \* cr.Comma = ' '

\* ------------------------------------------------ the report that is read
\* A line of /proc/net/softnet_stat is written by the kernel from numbers;
\* a text is a sequence of characters.
HexDigits == <<"0", "1", "2", "3", "4", "5", "6", "7",
               "8", "9", "a", "b", "c", "d", "e", "f">>

RECURSIVE ToHex(_)
ToHex(n) ==
  IF n < 16 THEN <<HexDigits[n + 1]>>
  ELSE ToHex(n \div 16) \o <<HexDigits[(n % 16) + 1]>>

RECURSIVE PadLeft(_, _)
PadLeft(t, w) == IF Len(t) >= w THEN t ELSE PadLeft(<<"0">> \o t, w)

RECURSIVE JoinFields(_)
JoinFields(fs) ==
  IF fs = <<>> THEN <<>>
  ELSE IF Len(fs) = 1 THEN fs[1]
  ELSE fs[1] \o <<Comma>> \o JoinFields(Tail(fs))

\* the eleven counters of processor k, all different
Counters(k) == [j \in 1..columns |-> 300 * k + 23 * j]

\* the five fields that current kernels leave at zero
Reserved == 4..8

\* texts that are not base-16 integers of 64 bits
BadTexts == { <<"z", "z">>, <<>>, <<"1", "g">>, [j \in 1..16 |-> "f"] }

\* How a line is produced: a well-formed row of processor k, with the
\* reserved fields zeroed or not, in minimal or %08x width; the same with
\* the last field missing, with a twelfth field, or with one field
\* replaced by a bad text; or an empty line.
RowSpecs ==
  [kind : {"good"}, k : {0, 1}, zeroed : BOOLEAN, width : {1, 8},
   pos : {0}, text : {<<>>}]
  \cup [kind : {"short", "long"}, k : {0}, zeroed : {TRUE}, width : {1},
        pos : {0}, text : {<<>>}]
  \cup [kind : {"badfield"}, k : {0}, zeroed : {TRUE}, width : {1},
        pos : {1, 6, 11}, text : BadTexts]
  \cup [kind : {"blank"}, k : {0}, zeroed : {TRUE}, width : {1},
        pos : {0}, text : {<<>>}]

RowFields(r) ==
  LET n == CASE r.kind = "short" -> columns - 1
             [] r.kind = "long" -> columns + 1
             [] OTHER -> columns
      num(j) == IF j > columns \/ (r.zeroed /\ j \in Reserved)
                  THEN 0 ELSE Counters(r.k)[j]
  IN [j \in 1..n |->
        IF r.kind = "badfield" /\ j = r.pos
          THEN r.text
          ELSE PadLeft(ToHex(num(j)), r.width)]

RowLine(r) == IF r.kind = "blank" THEN <<>> ELSE JoinFields(RowFields(r))

Reports == UNION {[1..n -> RowSpecs] : n \in 0..MaxRows}

\* --------------------------------------------------------- encoding/csv
\* one line split at the commas; no quote character occurs in a report
CommaPositions(line) == {i \in 1..Len(line) : line[i] = Comma}

\* the position of the j-th comma of the line; 0 and Len(line) + 1 bound it
NthComma(line, j) ==
  IF j = 0 THEN 0
  ELSE IF j > Cardinality(CommaPositions(line)) THEN Len(line) + 1
  ELSE CHOOSE i \in CommaPositions(line) :
         Cardinality({c \in CommaPositions(line) : c < i}) = j - 1

SplitFields(line) ==
  [j \in 1..(Cardinality(CommaPositions(line)) + 1) |->
     SubSeq(line, NthComma(line, j - 1) + 1, NthComma(line, j) - 1)]

\* cr.ReadAll() with cr.FieldsPerRecord = columns: empty lines are skipped,
\* the first record with another number of fields is an error
RECURSIVE ReadAllFrom(_, _)
ReadAllFrom(lines, i) ==
  IF i > Len(lines) THEN [err |-> "nil", records |-> <<>>]
  ELSE IF lines[i] = <<>> THEN ReadAllFrom(lines, i + 1)
  ELSE LET rec == SplitFields(lines[i])
       IN IF Len(rec) # columns
            THEN [err |-> "ErrFieldCount", records |-> <<>>]
            ELSE LET rest == ReadAllFrom(lines, i + 1)
                 IN IF rest.err # "nil" THEN rest
                    ELSE [err |-> "nil", records |-> <<rec>> \o rest.records]

ReadAll(lines) == ReadAllFrom(lines, 1)

\* ------------------------------------------------------ strconv.ParseInt
DigitVal(c) ==
  CASE c = "0" -> 0 [] c = "1" -> 1 [] c = "2" -> 2 [] c = "3" -> 3
    [] c = "4" -> 4 [] c = "5" -> 5 [] c = "6" -> 6 [] c = "7" -> 7
    [] c = "8" -> 8 [] c = "9" -> 9
    [] c \in {"a", "A"} -> 10 [] c \in {"b", "B"} -> 11
    [] c \in {"c", "C"} -> 12 [] c \in {"d", "D"} -> 13
    [] c \in {"e", "E"} -> 14 [] c \in {"f", "F"} -> 15
    [] OTHER -> 99

RECURSIVE Significant(_)
Significant(ds) ==
  IF Len(ds) > 1 /\ ds[1] = "0" THEN Significant(Tail(ds)) ELSE ds

RECURSIVE HexValue(_)
HexValue(ds) ==
  IF ds = <<>> THEN 0
  ELSE HexValue(SubSeq(ds, 1, Len(ds) - 1)) * base + DigitVal(ds[Len(ds)])

\* the magnitude does not fit: more than bitSize/4 significant digits, or
\* that many with the top bit set (except -2^63 itself)
OutOfRange(ds, neg) ==
  LET sg == Significant(ds)
      full == bitSize \div 4
  IN \/ Len(sg) > full
     \/ /\ Len(sg) = full
        /\ DigitVal(sg[1]) >= 8
        /\ ~(neg /\ sg = [j \in 1..full |-> IF j = 1 THEN "8" ELSE "0"])

\* strconv.ParseInt(c, base, 64)
ParseInt(c) ==
  LET signed == c # <<>> /\ c[1] \in {"+", "-"}
      neg == c # <<>> /\ c[1] = "-"
      ds == IF signed THEN Tail(c) ELSE c
  IN IF ds = <<>> \/ \E j \in 1..Len(ds) : DigitVal(ds[j]) >= base
       THEN [err |-> "ErrSyntax", n |-> 0]
     ELSE IF OutOfRange(ds, neg)
       THEN [err |-> "ErrRange", n |-> 0]
     ELSE [err |-> "nil", n |-> IF neg THEN 0 - HexValue(ds) ELSE HexValue(ds)]

\* ----------------------------------------------------- parseSoftnetRecord
RECURSIVE parseSoftnetRecordFrom(_, _)
parseSoftnetRecordFrom(rec, i) ==
  IF i > Len(rec) THEN [err |-> "nil", r |-> <<>>]
  ELSE LET p == ParseInt(rec[i])
       IN IF p.err # "nil" THEN [err |-> p.err, r |-> <<>>]
          ELSE LET rest == parseSoftnetRecordFrom(rec, i + 1)
               IN IF rest.err # "nil" THEN rest
                  ELSE [err |-> "nil", r |-> <<p.n>> \o rest.r]

parseSoftnetRecord(processorRecord) == parseSoftnetRecordFrom(processorRecord, 1)

\* ----------------------------------------------------------- parseSoftnet
\* a processor record that takes the collision counter from a reserved field
SoftnetDataProcessor_Shifted(fields) ==
  [Processed |-> fields[1], Dropped |-> fields[2], TimeSqueeze |-> fields[3],
   CPUCollision |-> fields[8], ReceivedRPS |-> fields[10],
   FlowLimitCount |-> fields[11]]

\* sdp := SoftnetDataProcessor{...}: fields[0], [1], [2], [8], [9], [10]
SoftnetDataProcessor(fields) ==
  [Processed |-> fields[1], Dropped |-> fields[2], TimeSqueeze |-> fields[3],
   CPUCollision |-> fields[9], ReceivedRPS |-> fields[10],
   FlowLimitCount |-> fields[11]]

\* the zero value of SoftnetDataProcessor
ZeroProcessor ==
  [Processed |-> 0, Dropped |-> 0, TimeSqueeze |-> 0,
   CPUCollision |-> 0, ReceivedRPS |-> 0, FlowLimitCount |-> 0]

SoftnetUnchangedIntake ==
  UNCHANGED <<procVars, cfgVars, ssfVars, unixVars, ssfUdpVars, statsdVars,
              udpVars, tcpVars>>

\* f, err := os.Open(...): an error is returned, or parseSoftnet(f) is called
SoftnetStat ==
  /\ snPc = "idle"
  /\ \/ /\ snResult' = [Processors |-> <<>>, err |-> "open"]
        /\ snPc' = "done"
     \/ /\ snPc' = "readall"
        /\ UNCHANGED snResult
  /\ UNCHANGED <<snRows, snReader, snRecords, snI, snSd>>
  /\ SoftnetUnchangedIntake

\* records, err := cr.ReadAll(); sd.Processors = make(..., len(records))
SoftnetReadAll ==
  /\ snPc = "readall"
  /\ LET ra == ReadAll(snReader)
     IN IF ra.err # "nil"
          THEN /\ snResult' = [Processors |-> <<>>, err |-> ra.err]
               /\ snPc' = "done"
               /\ UNCHANGED <<snRecords, snI, snSd>>
          ELSE /\ snRecords' = ra.records
               /\ snSd' = [j \in 1..Len(ra.records) |-> ZeroProcessor]
               /\ snI' = 1
               /\ snPc' = "loop"
               /\ UNCHANGED snResult
  /\ UNCHANGED <<snRows, snReader>>
  /\ SoftnetUnchangedIntake

\* a loop that returns what it has so far when a record fails
SoftnetLoop_Partial ==
  /\ snPc = "loop"
  /\ IF snI > Len(snRecords)
       THEN /\ snResult' = [Processors |-> snSd, err |-> "nil"]
            /\ snPc' = "done"
            /\ UNCHANGED <<snI, snSd>>
       ELSE LET f == parseSoftnetRecord(snRecords[snI])
            IN IF f.err # "nil"
                 THEN /\ snResult' = [Processors |-> snSd, err |-> f.err]
                      /\ snPc' = "done"
                      /\ UNCHANGED <<snI, snSd>>
                 ELSE /\ snSd' = [snSd EXCEPT ![snI] = SoftnetDataProcessor(f.r)]
                      /\ snI' = snI + 1
                      /\ UNCHANGED <<snPc, snResult>>
  /\ UNCHANGED <<snRows, snReader, snRecords>>
  /\ SoftnetUnchangedIntake

\* for i, processor := range records {...}; return sd, nil
SoftnetLoop ==
  /\ snPc = "loop"
  /\ IF snI > Len(snRecords)
       THEN /\ snResult' = [Processors |-> snSd, err |-> "nil"]
            /\ snPc' = "done"
            /\ UNCHANGED <<snI, snSd>>
       ELSE LET f == parseSoftnetRecord(snRecords[snI])
            IN IF f.err # "nil"
                 THEN /\ snResult' = [Processors |-> <<>>, err |-> f.err]
                      /\ snPc' = "done"
                      /\ UNCHANGED <<snI, snSd>>
                 ELSE /\ snSd' = [snSd EXCEPT ![snI] = SoftnetDataProcessor(f.r)]
                      /\ snI' = snI + 1
                      /\ UNCHANGED <<snPc, snResult>>
  /\ UNCHANGED <<snRows, snReader, snRecords>>
  /\ SoftnetUnchangedIntake

parseSoftnet ==
  \/ SoftnetReadAll
  \/ SoftnetLoop

\* one call of SoftnetStat on a report of at most MaxRows lines
InitSoftnet ==
  /\ InitIntake
  /\ numReaders = 1
  /\ tlsConfig = "nil"
  /\ sockFile = "none"
  /\ snPc = "idle"
  /\ snRows \in Reports
  /\ snReader = [j \in 1..Len(snRows) |-> RowLine(snRows[j])]
  /\ snRecords = <<>>
  /\ snI = 0
  /\ snSd = <<>>
  /\ snResult = "none"

NextSoftnet ==
  \/ SoftnetStat
  \/ parseSoftnet

SpecSoftnet == InitSoftnet /\ [][NextSoftnet]_vars

\* --------------------------------------------------------------------
\* parseSoftnet has returned (the file was opened)
SoftnetParsed == snPc = "done" /\ snResult.err # "open"

\* the record that the counters of processor k stand for
ExpectedProcessor(k) ==
  [Processed |-> Counters(k)[1], Dropped |-> Counters(k)[2],
   TimeSqueeze |-> Counters(k)[3], CPUCollision |-> Counters(k)[9],
   ReceivedRPS |-> Counters(k)[10], FlowLimitCount |-> Counters(k)[11]]

\* C15: when every row of the input has exactly 11 base-16 fields,
\* parseSoftnet returns no error and one record per row, in input order;
\* record i holds the values of fields 0, 1, 2, 8, 9, 10 of row i, whatever
\* fields 3..7 of that row hold.
C15_WellFormedReport ==
  (SoftnetParsed /\ \A j \in 1..Len(snRows) : snRows[j].kind = "good")
    => /\ snResult.err = "nil"
       /\ Len(snResult.Processors) = Len(snRows)
       /\ \A j \in 1..Len(snRows) :
            snResult.Processors[j] = ExpectedProcessor(snRows[j].k)

C15_Witness ==
  /\ SoftnetParsed
  /\ Len(snRows) = 2
  /\ snRows[1].kind = "good" /\ snRows[1].k = 1 /\ ~snRows[1].zeroed
  /\ snRows[2].kind = "good" /\ snRows[2].k = 0 /\ snRows[2].width = 8
  /\ snResult.err = "nil"
  /\ Len(snResult.Processors) = 2

\* C16 as stated: any row without exactly 11 fields, or with a field that
\* is not a base-16 integer, makes parseSoftnet return an error and an
\* empty SoftnetData.  An empty line is a row without 11 fields.
C16_AnyRowFails ==
  (SoftnetParsed /\ \E j \in 1..Len(snRows) : snRows[j].kind # "good")
    => snResult.err # "nil" /\ snResult.Processors = <<>>

\* C16 amended: any non-empty row without exactly 11 fields, or with a
\* field that is not a base-16 integer, makes parseSoftnet return an error
\* and an empty SoftnetData, however many earlier rows were well-formed;
\* empty lines are skipped.
C16_NonEmptyRowFails ==
  (SoftnetParsed
     /\ \E j \in 1..Len(snRows) : snRows[j].kind \in {"short", "long", "badfield"})
    => snResult.err # "nil" /\ snResult.Processors = <<>>

C16_Witness ==
  /\ SoftnetParsed
  /\ Len(snRows) = 2
  /\ snRows[1].kind = "good"
  /\ snRows[2].kind = "badfield"
  /\ snI = 2
  /\ snResult.err = "ErrSyntax"
  /\ snResult.Processors = <<>>

====
